---- MODULE Spec2Model ----
(***************************************************************************)
(* The search-history store of wikipedia_search_gui.py: load_history,      *)
(* save_history, the history update of search_wikipedia and the            *)
(* WM_DELETE_WINDOW handler, over consecutive process lifetimes.           *)
(*                                                                         *)
(* Time is counted in whole days since 1970-01-01 (EPOCH).  A query string *)
(* is named by a natural number (EMPTY is the empty string); NO_KEY stands *)
(* for a dictionary key that is absent and NON_STR for a JSON value that   *)
(* is not a string.  A timestamp text is named by the day it denotes, or   *)
(* by BAD_TEXT (a string datetime.fromisoformat rejects with ValueError)   *)
(* or NON_STR (a value it rejects with TypeError).                         *)
(***************************************************************************)
EXTENDS Integers, Sequences, FiniteSets, TLC

VARIABLES
    file,            \* the content of HISTORY_FILE on disk
    search_history,  \* the global list search_history
    combo_values,    \* combo['values']
    now,             \* the wall clock, datetime.now()
    launched,        \* how many times this process called webbrowser.open
    error,           \* the uncaught exception that ended the process, or "none"
    loads,           \* how many times this process called load_history
    loaded_at,       \* the clock when this process called load_history
    saves,           \* how many times this process called save_history
    reported,        \* save_history printed its failure message
    pc               \* where the process is: init, running, warning (the
                     \* modal box of line 73 is open), closed, crashed

vars == <<file, search_history, combo_values, now, launched, error,
          loads, loaded_at, saves, reported, pc>>

----------------------------------------------------------------------------
(* Program constants *)

MAX_HISTORY_COUNT == 20
HISTORY_RETENTION_DAYS == 15
EPOCH == 0

(* Bounds of the model *)

MaxFileLen == 2     \* longest arbitrary array enumerated as a persisted file
MaxTicks == 1       \* days the clock may advance past StartDay
MaxOver == 1        \* entries by which an enumerated long file exceeds the cap
MaxSearches == 3    \* searches one process opens in the browser under Spec
MaxDistinct == 22   \* distinct queries recorded in a row under SpecCap

(* Value names *)

EMPTY == 0
NO_KEY == -1
NON_STR == -2
BAD_TEXT == -3

\* The clock at the first start: late enough that EPOCH is outside the
\* retention window (any date after 1970-01-16).
StartDay == EPOCH + HISTORY_RETENTION_DAYS + 1

Min(a, b) == IF a <= b THEN a ELSE b

----------------------------------------------------------------------------
(* JSON documents and the file *)

StrElem(q) == [k |-> "str", query |-> q, timestamp |-> NO_KEY]
NumElem == [k |-> "num", query |-> NON_STR, timestamp |-> NO_KEY]
RecElem(q, t) == [k |-> "rec", query |-> q, timestamp |-> t]

Entry(q, t) == [query |-> q, timestamp |-> t]

AbsentFile == [kind |-> "absent", items |-> <<>>]
EmptyFile == [kind |-> "empty", items |-> <<>>]
UndecodableFile == [kind |-> "undecodable", items |-> <<>>]
GarbledFile == [kind |-> "garbled", items |-> <<>>]
ScalarFile == [kind |-> "scalar", items |-> <<>>]
ArrayFile(items) == [kind |-> "array", items |-> items]

----------------------------------------------------------------------------
(* The persisted files enumerated as inputs *)

FileQueries == {1, 2}

FileTimestamps ==
    { StartDay - HISTORY_RETENTION_DAYS - 1,   \* retention + 1 days old at StartDay
      StartDay - HISTORY_RETENTION_DAYS,       \* exactly at the cutoff at StartDay
      StartDay - HISTORY_RETENTION_DAYS + 1,   \* retention - 1 days old at StartDay
      NO_KEY, BAD_TEXT, NON_STR }

\* Query 2 comes only with the timestamps the retention filter keeps at
\* StartDay, query 1 with every timestamp.
Elements ==
    {StrElem(q) : q \in FileQueries}
    \cup {NumElem}
    \cup {RecElem(1, t) : t \in FileTimestamps}
    \cup {RecElem(2, t) : t \in FileTimestamps \cap (StartDay - HISTORY_RETENTION_DAYS)..StartDay}
    \cup {RecElem(NO_KEY, StartDay)}

ShortArrays == UNION {[1..n -> Elements] : n \in 0..MaxFileLen}

\* A file of n fresh records with pairwise distinct queries n..1, as n
\* searches for 1, 2, .. n in that order would leave them without the cap.
LongArray(n) == [i \in 1..n |-> RecElem(n + 1 - i, StartDay)]

LongArrays == {LongArray(n) : n \in MAX_HISTORY_COUNT..(MAX_HISTORY_COUNT + MaxOver)}

Files ==
    {AbsentFile, EmptyFile, UndecodableFile, GarbledFile, ScalarFile}
    \cup {ArrayFile(a) : a \in ShortArrays \cup LongArrays}

\* What the user may type or select: nothing, a query the enumerated files
\* hold (the last two of a long file) or a query no file holds.
FreshQuery == MAX_HISTORY_COUNT + MaxOver + 1
UserInputs == {EMPTY} \cup FileQueries \cup {FreshQuery}

----------------------------------------------------------------------------
(* load_history *)

isoformat(day) == day

fromisoformat(text) ==
    IF text = NON_STR THEN [exc |-> "TypeError", day |-> EPOCH]
    ELSE IF text = BAD_TEXT THEN [exc |-> "ValueError", day |-> EPOCH]
    ELSE [exc |-> "none", day |-> text]

\* item.get("timestamp", "1970-01-01T00:00:00")
get_timestamp(item) == IF item.timestamp = NO_KEY THEN isoformat(EPOCH) ELSE item.timestamp

\* {"query": item, "timestamp": datetime.now().isoformat()}
migrate_undated(item, clock) ==
    RecElem(IF item.k = "str" THEN item.query ELSE NON_STR, NO_KEY)

migrate(item, clock) ==
    RecElem(IF item.k = "str" THEN item.query ELSE NON_STR, isoformat(clock))

keeps_only_newer(timestamp, cutoff_date) == timestamp > cutoff_date

keeps(timestamp, cutoff_date) == timestamp >= cutoff_date

\* The loop over history that fills valid_history; a non-dictionary item has
\* no get(), and its AttributeError is caught by neither except clause.
RECURSIVE retention_loop(_, _, _)
retention_loop(history, cutoff_date, valid_history) ==
    IF history = <<>> THEN [exc |-> "none", value |-> valid_history]
    ELSE LET item == Head(history) IN
         IF item.k # "rec" THEN [exc |-> "AttributeError", value |-> <<>>]
         ELSE LET timestamp == fromisoformat(get_timestamp(item)) IN
              IF timestamp.exc = "none" /\ keeps(timestamp.day, cutoff_date)
              THEN retention_loop(Tail(history), cutoff_date,
                                  Append(valid_history, Entry(item.query, item.timestamp)))
              ELSE retention_loop(Tail(history), cutoff_date, valid_history)

is_legacy(history) == history # <<>> /\ history[1].k = "str"

load_history(f, clock) ==
    IF f.kind = "absent" THEN [exc |-> "none", value |-> <<>>]
    ELSE IF f.kind = "empty" THEN [exc |-> "none", value |-> <<>>]
    ELSE IF f.kind = "undecodable" THEN [exc |-> "UnicodeDecodeError", value |-> <<>>]
    ELSE IF f.kind = "garbled" THEN [exc |-> "none", value |-> <<>>]
    ELSE IF f.kind # "array" THEN [exc |-> "none", value |-> <<>>]
    ELSE LET history == IF is_legacy(f.items)
                        THEN [i \in 1..Len(f.items) |-> migrate(f.items[i], clock)]
                        ELSE f.items
             cutoff_date == clock - HISTORY_RETENTION_DAYS
         IN retention_loop(history, cutoff_date, <<>>)

----------------------------------------------------------------------------
(* save_history *)

json_dump_queries_only(history) ==
    ArrayFile([i \in 1..Len(history) |-> RecElem(history[i].query, NO_KEY)])

json_dump(history) ==
    ArrayFile([i \in 1..Len(history) |->
                  RecElem(history[i].query, history[i].timestamp)])

\* open(..., "w") may fail and leave the file as it was; a write that fails
\* after the open leaves a truncated file.  Either IOError is printed.
save_history_skipped(history, f, outcome) == f

save_history(history, f, outcome) ==
    IF outcome = "saved" THEN json_dump(history)
    ELSE IF outcome = "open_failed" THEN f
    ELSE EmptyFile

SaveOutcomes == {"saved", "open_failed", "write_failed"}

----------------------------------------------------------------------------
(* The history update of search_wikipedia, and the list shown in the combobox *)

queries(history) == [i \in 1..Len(history) |-> history[i].query]

has_query_key(history) == \A i \in 1..Len(history) : history[i].query # NO_KEY

remove_query_keeps_all(history, query) == history

remove_query(history, query) == SelectSeq(history, LAMBDA item : item.query # query)

insert_back(history, new_entry) == Append(history, new_entry)

insert_front(history, new_entry) == <<new_entry>> \o history

cap_never(history) == history

cap_drops_front(history) ==
    IF Len(history) > MAX_HISTORY_COUNT
    THEN SubSeq(history, 2, Len(history))
    ELSE history

cap_when_full(history) ==
    IF Len(history) >= MAX_HISTORY_COUNT
    THEN SubSeq(history, 1, Len(history) - 1)
    ELSE history

cap(history) ==
    IF Len(history) > MAX_HISTORY_COUNT
    THEN SubSeq(history, 1, Len(history) - 1)
    ELSE history

record_expiring(history, query, clock) ==
    cap(insert_front(
            remove_query(SelectSeq(history,
                                   LAMBDA item : keeps(item.timestamp,
                                                       clock - HISTORY_RETENTION_DAYS)),
                         query),
            Entry(query, isoformat(clock))))

record_keeping_stamp(history, query, clock) ==
    LET old == SelectSeq(history, LAMBDA item : item.query = query)
    IN cap(insert_front(remove_query(history, query),
                        IF old = <<>> THEN Entry(query, isoformat(clock)) ELSE old[1]))

record(history, query, clock) ==
    cap(insert_front(remove_query(history, query), Entry(query, isoformat(clock))))

----------------------------------------------------------------------------
(* The process *)

Init ==
    /\ file \in Files
    /\ search_history = <<>>
    /\ combo_values = <<>>
    /\ now = StartDay
    /\ launched = 0
    /\ error = "none"
    /\ loads = 0
    /\ loaded_at = EPOCH
    /\ saves = 0
    /\ reported = FALSE
    /\ pc = "init"

\* Lines 104-131: the history is loaded, the combobox is filled from it and
\* the event loop starts.  An exception here ends the process: one that
\* load_history lets through, or the KeyError of item['query'] at line 119.
Startup ==
    /\ pc = "init"
    /\ LET loaded == load_history(file, now) IN
         IF loaded.exc # "none"
         THEN /\ pc' = "crashed"
              /\ error' = loaded.exc
              /\ UNCHANGED <<search_history, combo_values>>
         ELSE /\ search_history' = loaded.value
              /\ IF has_query_key(loaded.value)
                 THEN /\ combo_values' = queries(loaded.value)
                      /\ pc' = "running"
                      /\ error' = error
                 ELSE /\ combo_values' = combo_values
                      /\ pc' = "crashed"
                      /\ error' = "KeyError"
    /\ loads' = loads + 1
    /\ loaded_at' = now
    /\ UNCHANGED <<file, now, launched, saves, reported>>

search_wikipedia_unguarded(query) ==
    /\ pc = "running"
    /\ launched' = launched + 1
    /\ search_history' = record(search_history, query, now)
    /\ combo_values' = queries(search_history')
    /\ UNCHANGED <<file, now, error, loads, loaded_at, saves, reported, pc>>

\* The search button's command.  For an empty input it shows the modal
\* warning box and returns when the box is dismissed.
search_wikipedia(query) ==
    /\ pc = "running"
    /\ IF query = EMPTY
       THEN /\ pc' = "warning"
            /\ UNCHANGED <<search_history, combo_values, launched>>
       ELSE /\ launched' = launched + 1
            /\ search_history' = record(search_history, query, now)
            /\ combo_values' = IF has_query_key(search_history')
                               THEN queries(search_history')
                               ELSE combo_values
            /\ pc' = pc
    /\ UNCHANGED <<file, now, error, loads, loaded_at, saves, reported>>

\* The user dismisses the warning box: showwarning returns, and
\* search_wikipedia returns at line 74.
DismissWarning ==
    /\ pc = "warning"
    /\ pc' = "running"
    /\ UNCHANGED <<file, search_history, combo_values, now, launched, error,
                   loads, loaded_at, saves, reported>>

\* The WM_DELETE_WINDOW handler: save_history, which prints an IOError and
\* returns, then window.destroy(), after which mainloop returns.
CloseWindow_raising(outcome) ==
    /\ pc = "running"
    /\ file' = save_history(search_history, file, outcome)
    /\ saves' = saves + 1
    /\ reported' = FALSE
    /\ IF outcome = "saved"
       THEN pc' = "closed" /\ error' = error
       ELSE pc' = "crashed" /\ error' = "IOError"
    /\ UNCHANGED <<search_history, combo_values, now, launched, loads, loaded_at>>

CloseWindow(outcome) ==
    /\ pc = "running"
    /\ file' = save_history(search_history, file, outcome)
    /\ saves' = saves + 1
    /\ reported' = (outcome # "saved")
    /\ pc' = "closed"
    /\ UNCHANGED <<search_history, combo_values, now, launched, error,
                   loads, loaded_at>>

\* The program is started again: a new process with nothing in memory.
Restart ==
    /\ pc = "closed"
    /\ pc' = "init"
    /\ search_history' = <<>>
    /\ combo_values' = <<>>
    /\ launched' = 0
    /\ loads' = 0
    /\ loaded_at' = EPOCH
    /\ saves' = 0
    /\ reported' = FALSE
    /\ UNCHANGED <<file, now, error>>

\* A day passes.
Tick ==
    /\ pc \in {"running", "closed"}
    /\ now < StartDay + MaxTicks
    /\ now' = now + 1
    /\ UNCHANGED <<file, search_history, combo_values, launched, error,
                   loads, loaded_at, saves, reported, pc>>

Search == \E query \in UserInputs : launched < MaxSearches /\ search_wikipedia(query)

Close == \E outcome \in SaveOutcomes : CloseWindow(outcome)

Next ==
    \/ Startup
    \/ Search
    \/ DismissWarning
    \/ Close
    \/ Restart
    \/ Tick

Spec == Init /\ [][Next]_vars

----------------------------------------------------------------------------
(* One process that starts without a history file and is given pairwise    *)
(* distinct queries, 1, 2, 3, .. in that order.                            *)

InitCap ==
    /\ file = AbsentFile
    /\ search_history = <<>>
    /\ combo_values = <<>>
    /\ now = StartDay
    /\ launched = 0
    /\ error = "none"
    /\ loads = 0
    /\ loaded_at = EPOCH
    /\ saves = 0
    /\ reported = FALSE
    /\ pc = "init"

SearchDistinct == launched < MaxDistinct /\ search_wikipedia(launched + 1)

NextCap ==
    \/ Startup
    \/ SearchDistinct
    \/ Tick

SpecCap == InitCap /\ [][NextCap]_vars

----------------------------------------------------------------------------
(* Consecutive processes that start from an absent file, with every save   *)
(* succeeding and nothing else writing the file.  The user searches again *)
(* for the query the history leads with, or for the next query it does not *)
(* hold; between two processes the program may stay closed for a day and,  *)
(* after the last such day, once for the length of the retention.          *)

InitOwn ==
    /\ file = AbsentFile
    /\ search_history = <<>>
    /\ combo_values = <<>>
    /\ now = StartDay
    /\ launched = 0
    /\ error = "none"
    /\ loads = 0
    /\ loaded_at = EPOCH
    /\ saves = 0
    /\ reported = FALSE
    /\ pc = "init"

NextQuery ==
    1 + CHOOSE m \in 0..MaxDistinct :
            /\ \A i \in 1..Len(search_history) : search_history[i].query <= m
            /\ m # 0 => \E i \in 1..Len(search_history) : search_history[i].query = m

SearchOwn ==
    \E query \in {IF search_history = <<>> THEN 1 ELSE search_history[1].query,
                  NextQuery} :
        /\ launched < MaxSearches
        /\ query <= MaxDistinct
        /\ search_wikipedia(query)

CloseSaved == CloseWindow("saved")

StayClosed(days) ==
    /\ pc = "closed"
    /\ IF days = 1 THEN now < StartDay + MaxTicks ELSE now = StartDay + MaxTicks
    /\ now' = now + days
    /\ UNCHANGED <<file, search_history, combo_values, launched, error,
                   loads, loaded_at, saves, reported, pc>>

NextOwn ==
    \/ Startup
    \/ SearchOwn
    \/ CloseSaved
    \/ Restart
    \/ StayClosed(1)
    \/ StayClosed(HISTORY_RETENTION_DAYS)

SpecOwn == InitOwn /\ [][NextOwn]_vars

----------------------------------------------------------------------------
(* Helpers of the properties *)

Take(s, n) == SubSeq(s, 1, Min(n, Len(s)))

Positions(history, query) == {i \in 1..Len(history) : history[i].query = query}

Typed == {query \in UserInputs : query # EMPTY}

----------------------------------------------------------------------------
\* C1: immediately after a search for a non-empty query q, whatever the
\* history held before, q is at index 0 of the history and of the list the
\* combobox shows, and at no other index.
C1_RecordedQueryLeadsOnce ==
    [][\A q \in Typed :
          search_wikipedia(q) =>
              /\ Positions(search_history', q) = {1}
              /\ {i \in 1..Len(combo_values') : combo_values'[i] = q} = {1}]_vars

\* cat, dog, cat from an empty store gives [cat, dog].
C1_Witness ==
    /\ pc = "running"
    /\ file = AbsentFile
    /\ launched = 3
    /\ combo_values = <<1, 2>>
    /\ queries(search_history) = <<1, 2>>

\* C2: after n pairwise distinct queries from an empty history the list is
\* the last min(n, MAX_HISTORY_COUNT) of them, most recent first.
C2_LastDistinctQueriesNewestFirst ==
    pc = "running" =>
        /\ combo_values = [i \in 1..Min(launched, MAX_HISTORY_COUNT) |-> launched + 1 - i]
        /\ queries(search_history) = combo_values

\* 21 distinct queries with capacity 20: q1 is gone, q21 .. q2 remain.
C2_Witness ==
    /\ pc = "running"
    /\ launched = MAX_HISTORY_COUNT + 1
    /\ Len(combo_values) = MAX_HISTORY_COUNT
    /\ combo_values[1] = MAX_HISTORY_COUNT + 1
    /\ combo_values[MAX_HISTORY_COUNT] = 2


\* C3: once a file has been loaded and at least one search recorded, the
\* history holds at most MAX_HISTORY_COUNT entries.
C3_LengthWithinCapAfterRecord ==
    (pc = "running" /\ launched > 0) => Len(search_history) <= MAX_HISTORY_COUNT

\* C4: the sequence adopted at startup, before the first search, is the
\* loaded one cut to its first MAX_HISTORY_COUNT entries.
C4_StartupTruncatesToCap ==
    (pc = "running" /\ launched = 0) =>
        /\ Len(search_history) <= MAX_HISTORY_COUNT
        /\ file.kind = "array" =>
               queries(search_history) =
                   Take(queries(load_history(file, now).value), MAX_HISTORY_COUNT)

\* C5: in every state after the load, no two entries share a query.
C5_QueriesUnique ==
    pc = "running" =>
        \A i, j \in 1..Len(search_history) :
            i # j => search_history[i].query # search_history[j].query

\* C6: loading an array never ends the startup with an exception, whatever
\* its elements are.
C6_ArrayLoadRaisesNothing ==
    file.kind = "array" => error \notin {"AttributeError", "UnicodeDecodeError"}

\* C7: a missing file, an empty file, content that does not parse and a
\* top-level value that is not an array each load as the empty history,
\* with no exception.
C7_NoDocumentLoadsEmpty ==
    (file.kind # "array" /\ pc \in {"running", "crashed"} /\ launched = 0) =>
        /\ error = "none"
        /\ pc = "running"
        /\ search_history = <<>>

----------------------------------------------------------------------------
(* What the load of an array is to return, stated without load_history *)

AllRecords(items) == \A i \in 1..Len(items) : items[i].k = "rec"

\* The timestamp is present, parses, and is not older than the cutoff.
InWindow(timestamp, clock) ==
    /\ timestamp \notin {NO_KEY, BAD_TEXT, NON_STR}
    /\ timestamp >= clock - HISTORY_RETENTION_DAYS

Retained(items, clock) ==
    LET kept == SelectSeq(items, LAMBDA item : InWindow(item.timestamp, clock))
    IN [i \in 1..Len(kept) |-> Entry(kept[i].query, kept[i].timestamp)]

Migrated(items, clock) ==
    [i \in 1..Len(items) |->
        Entry(IF items[i].k = "str" THEN items[i].query ELSE NON_STR, clock)]

C9_LegacyArrayMigratesWhole ==
    [][(Startup /\ file.kind = "array" /\ is_legacy(file.items)) =>
          /\ search_history' = Migrated(file.items, now)
          /\ combo_values' = queries(search_history')
          /\ pc' = "running"]_vars

\* ["a", "b"] loads as a, b, both stamped with the load time.
C9_Witness ==
    /\ pc = "running"
    /\ launched = 0
    /\ file = ArrayFile(<<StrElem(1), StrElem(2)>>)
    /\ search_history = <<Entry(1, StartDay), Entry(2, StartDay)>>

\* The times at which a file saved now may be loaded again: any day the
\* clock can still reach, and the day after.
LaterLoadTimes == now..(StartDay + MaxTicks + 1)

AllInWindow(history, clock) ==
    \A i \in 1..Len(history) : InWindow(history[i].timestamp, clock)

\* C10: when the history has been saved, a load of the saved file at any
\* time at which every entry is still within the retention window returns
\* the same entries, queries and timestamps, in the same order.
C10_SaveThenLoadRoundTrips ==
    [][CloseWindow("saved") =>
          \A clock \in LaterLoadTimes :
              AllInWindow(search_history, clock) =>
                  load_history(file', clock) = [exc |-> "none", value |-> search_history]]_vars

\* A history holding a search of this session and an older entry has been
\* saved, and the saved file loads as that history.
C10_Witness ==
    /\ pc = "closed"
    /\ Len(search_history) >= 2
    /\ search_history[1].query = FreshQuery
    /\ file = json_dump(search_history)
    /\ load_history(file, now).value = search_history

----------------------------------------------------------------------------
\* C11: in one process the history is loaded once, at startup; no search
\* writes the file; closing the window calls save_history once, before the
\* window is gone, and a save that succeeds writes the history as it stands.
C11_LoadedOnceSavedOnceAtShutdown ==
    /\ [](pc \in {"running", "warning"} => (loads = 1 /\ saves = 0))
    /\ [](pc = "closed" => (loads = 1 /\ saves = 1))
    /\ [][/\ file' # file => (pc = "running" /\ pc' = "closed")
          /\ \A q \in UserInputs :
                search_wikipedia(q) => (file' = file /\ saves' = saves /\ loads' = loads)
          /\ CloseWindow("saved") =>
                (file' = json_dump(search_history) /\ search_history' = search_history)]_vars

\* A process has searched, was closed, and its history is on disk.
C11_Witness ==
    /\ pc = "closed"
    /\ loads = 1
    /\ saves = 1
    /\ ~reported
    /\ launched = 2
    /\ file = json_dump(search_history)
    /\ search_history[1].query = FreshQuery

\* C12: a save that fails at shutdown is reported and not raised: it is not
\* tried again, the history in memory is unchanged and the window is
\* destroyed all the same.
C12_FailedSaveIsReportedNotRaised ==
    [][\A outcome \in SaveOutcomes \ {"saved"} :
          CloseWindow(outcome) =>
              /\ reported'
              /\ error' = "none"
              /\ pc' = "closed"
              /\ saves' = 1
              /\ search_history' = search_history]_vars

\* A process that searched was closed while the file could not be written.
C12_Witness ==
    /\ pc = "closed"
    /\ reported
    /\ error = "none"
    /\ saves = 1
    /\ launched >= 1
    /\ file # json_dump(search_history)

----------------------------------------------------------------------------
Aged(history, clock) ==
    {i \in 1..Len(history) : ~InWindow(history[i].timestamp, clock)}

Holds(history, entry) == \E j \in 1..Len(history) : history[j] = entry

\* The entry at index i is the one the cap evicts when query is recorded.
EvictedBy(history, query, i) ==
    /\ i = Len(history)
    /\ history[i].query # query
    /\ Len(SelectSeq(history, LAMBDA item : item.query # query)) + 1 > MAX_HISTORY_COUNT

\* C13: expiry is evaluated only by the load.  Every entry of a session is
\* stamped at or after the session's load time minus the retention; a
\* search removes no entry for having aged out of the window since, a save
\* writes such entries, and it is the next load that drops them.
C13_ExpiryOnlyAtLoad ==
    /\ [](pc \in {"running", "warning", "closed"} =>
             \A i \in 1..Len(search_history) :
                 search_history[i].timestamp >= loaded_at - HISTORY_RETENTION_DAYS)
    /\ [][/\ \A q \in Typed :
                search_wikipedia(q) =>
                    \A i \in Aged(search_history, now) :
                        \/ search_history[i].query = q
                        \/ EvictedBy(search_history, q, i)
                        \/ Holds(search_history', search_history[i])
          /\ CloseWindow("saved") =>
                \A i \in Aged(search_history, now) :
                    \E j \in 1..Len(file'.items) :
                        file'.items[j] = RecElem(search_history[i].query,
                                                 search_history[i].timestamp)
          /\ Startup => Aged(search_history', now) = {}]_vars

\* An entry that aged out of the window during the session outlived a
\* search and was written at shutdown.
C13_Witness ==
    /\ pc = "closed"
    /\ ~reported
    /\ launched >= 1
    /\ now > loaded_at
    /\ Aged(search_history, now) # {}
    /\ file = json_dump(search_history)

\* C14: an empty input is turned away before the history is touched: the
\* history, the list shown and the file are unchanged, no browser is
\* launched, and no search adds an entry with the empty query.
C14_EmptyInputChangesNothing ==
    [][/\ search_wikipedia(EMPTY) =>
             /\ UNCHANGED <<search_history, combo_values, launched, file>>
             /\ pc' = "warning"
       /\ DismissWarning =>
             UNCHANGED <<search_history, combo_values, launched, file>>
       /\ \A q \in UserInputs :
             search_wikipedia(q) =>
                 Cardinality(Positions(search_history', EMPTY))
                     <= Cardinality(Positions(search_history, EMPTY))]_vars

\* The warning is up after a search, over a history of two entries.
C14_Witness ==
    /\ pc = "warning"
    /\ launched = 1
    /\ Len(search_history) = 2
    /\ combo_values = queries(search_history)

\* C15: a search for a query already present replaces its entry by one
\* stamped with the time of the search, so a later load keeps it for as long
\* as that time is within the window, whatever the old timestamp was: the
\* load on the last day of the window of the new stamp still returns it.
C15_RerecordRestartsRetention ==
    [][launched' # launched =>
          \A q \in Typed :
              (Positions(search_history, q) # {} /\ search_wikipedia(q)) =>
                  /\ search_history'[1] = Entry(q, now)
                  /\ Positions(search_history', q) = {1}
                  /\ LET last_day == now + HISTORY_RETENTION_DAYS
                         later == load_history(json_dump(search_history'), last_day)
                     IN later.exc = "none" /\ Holds(later.value, Entry(q, now))]_vars

\* A query stamped retention days before the load is searched again a day
\* later, when the old stamp is outside the window.
C15_Witness ==
    /\ pc = "running"
    /\ now = StartDay + 1
    /\ file = ArrayFile(<<RecElem(1, StartDay - HISTORY_RETENTION_DAYS)>>)
    /\ search_history = <<Entry(1, StartDay + 1)>>
    /\ load_history(json_dump(search_history), now).value = search_history

----------------------------------------------------------------------------
\* C16: after any file that load_history accepts, the list of queries can
\* be taken from the history: it has the history's length and the i-th
\* query at index i.
C16_QueriesOfAcceptedLoad ==
    (pc \in {"running", "warning", "crashed"}
         /\ error \notin {"AttributeError", "UnicodeDecodeError"}) =>
        /\ error = "none"
        /\ combo_values = queries(search_history)
        /\ has_query_key(search_history)

Others(history, query) == SelectSeq(history, LAMBDA item : item.query # query)

\* C17: a search for q moves q to the front and changes nothing else but, at
\* most, the tail: the entries with another query follow the new front
\* entry in their old order, query and timestamp unchanged, less the last
\* one when the cap evicts it.
C17_OtherEntriesKeepOrderAndStamp ==
    [][\A q \in Typed :
          search_wikipedia(q) =>
              LET others == Others(search_history, q) IN
              /\ search_history'[1].query = q
              /\ \/ Tail(search_history') = others
                 \/ /\ Len(others) + 1 > MAX_HISTORY_COUNT
                    /\ Tail(search_history') = SubSeq(others, 1, Len(others) - 1)]_vars

\* Of 21 loaded entries the last one is searched again: it leads, the
\* others follow in order, and the entry that was next to last is evicted.
C17_Witness ==
    /\ pc = "running"
    /\ launched = 1
    /\ file = ArrayFile(LongArray(MAX_HISTORY_COUNT + 1))
    /\ queries(search_history) =
           <<1>> \o [i \in 1..(MAX_HISTORY_COUNT - 1) |-> MAX_HISTORY_COUNT + 2 - i]

Distinct(history) ==
    \A i, j \in 1..Len(history) : i # j => history[i].query # history[j].query

QuerySet(history) == {history[i].query : i \in 1..Len(history)}

\* C18: with exactly MAX_HISTORY_COUNT entries of distinct queries, a search
\* for a query among them evicts nothing: the length and the set of queries
\* stay, the other entries keep their timestamps, and q leads with a new one.
C18_RerecordAtCapEvictsNothing ==
    [][\A q \in Typed :
          (/\ launched' # launched
           /\ Len(search_history) = MAX_HISTORY_COUNT
           /\ Distinct(search_history)
           /\ q \in QuerySet(search_history)
           /\ search_wikipedia(q)) =>
              /\ Len(search_history') = MAX_HISTORY_COUNT
              /\ QuerySet(search_history') = QuerySet(search_history)
              /\ search_history'[1] = Entry(q, now)
              /\ \A i \in 1..Len(search_history) :
                    search_history[i].query # q =>
                        Holds(search_history', search_history[i])]_vars

\* The last of 20 loaded entries has been searched again.
C18_Witness ==
    /\ pc = "running"
    /\ launched = 1
    /\ file = ArrayFile(LongArray(MAX_HISTORY_COUNT))
    /\ Len(search_history) = MAX_HISTORY_COUNT
    /\ search_history[1].query = 1
    /\ search_history[MAX_HISTORY_COUNT].query = 2

\* The entries of a sequence that are inside the retention window of a clock.
StillFresh(history, clock) ==
    SelectSeq(history, LAMBDA item : InWindow(item.timestamp, clock))

\* C19: over consecutive processes that start from an absent file, with every
\* save succeeding and nothing else writing the file, every persisted file
\* holds at most MAX_HISTORY_COUNT entries with pairwise distinct queries,
\* and each start loads the final sequence of the process before it without
\* the entries outside the retention window at the load, in the same order.
C19_OwnFilesStayWithinCapAndReload ==
    /\ [](file.kind = "array" =>
            /\ Len(file.items) <= MAX_HISTORY_COUNT
            /\ AllRecords(file.items)
            /\ Cardinality(QuerySet(file.items)) = Len(file.items))
    /\ [][Restart => Retained(file.items, now) = StillFresh(search_history, now)]_vars
    /\ [][Startup => /\ pc' = "running"
                     /\ search_history' = Retained(file.items, now)]_vars

\* More than MAX_HISTORY_COUNT distinct queries were recorded over several
\* processes, the file is full, and the process started after the long stay
\* has loaded some of its entries and dropped the others.
C19_Witness ==
    /\ pc = "running"
    /\ launched = 0
    /\ file.kind = "array"
    /\ Len(file.items) = MAX_HISTORY_COUNT
    /\ file.items[1].query = MaxDistinct
    /\ 0 < Len(search_history)
    /\ Len(search_history) < MAX_HISTORY_COUNT

====
